---------------------------- MODULE Spec2Model ----------------------------
(***************************************************************************)
(* Janus: the trigger-based content-regeneration pipeline.                 *)
(*                                                                         *)
(*   - retry_on_db_lock            (agents/views.py, metrics/views.py)     *)
(*   - checkTrigger, the evaluator (metrics/views.py)                      *)
(*   - regenerate_content_background, the Regeneration Worker              *)
(*   - parseTrigger, createXPost, getXPostMetrics (the requests that       *)
(*     change what the evaluator reads)                                    *)
(*                                                                         *)
(* A nullable column or Python None is modelled as a set with at most one  *)
(* element: {} is None, {x} is the value x.                                *)
(***************************************************************************)
EXTENDS Integers, Sequences, FiniteSets, TLC

VARIABLES
    posts,      \* Post rows: status, posted_time, the four trigger columns, metrics FK
    pm,         \* PostMetrics rows, one per post
    variants,   \* ContentVariant rows in insertion (created_at) order
    workers,    \* the regeneration threads started by checkTrigger, in start order
    now,        \* timezone.now()
    nchecks,    \* number of check-triggers requests served
    resp,       \* triggered_posts of the latest check-triggers response
    prevResp,   \* triggered_posts of the response before it
    fires,      \* per post: events fired on the configuration now stored by parseTrigger
    parseReq,   \* the parseTrigger request in flight (between its read and its save)
    pubReq,     \* the createXPost or approveAllNodes request in flight (between read and save)
    nreqs,      \* number of parseTrigger, publish and getXPostMetrics requests
    retry,      \* one call of retry_on_db_lock: its arguments and its outcome
    uniqueTogether, \* whether the database holds the unique index on (post, variant_id)
    parseResp,  \* the latest parseTrigger response and the request it answers
    gen,        \* a campaign and the thread generating its first A/B content
    mermaid     \* one call of parse_mermaid_diagram: its input and its locals

vars == <<posts, pm, variants, workers, now, nchecks, resp, prevResp,
          fires, parseReq, pubReq, nreqs, retry, uniqueTogether, parseResp, gen, mermaid>>

storeVars == <<posts, pm, variants>>

-----------------------------------------------------------------------------
(* Bounds of the model and constants of the program                        *)

MaxRetries == 5          \* retry_on_db_lock is explored for max_retries in 0..MaxRetries
MaxChecks == 2           \* check-triggers requests per behaviour
MaxTime == 1             \* the clock runs over 0..MaxTime
MaxLines == 3            \* lines of a diagram handed to parse_mermaid_diagram
CampaignSize == 2        \* posts of the campaign whose first content is generated
MaxRequests == 3         \* parseTrigger, publish and getXPostMetrics requests per behaviour

DefaultMaxRetries == 5   \* max_retries=5
DefaultInitialDelay == 1 \* initial_delay=0.1, in tenths of a second

None == {}
Some(x) == {x}
IsSet(o) == o # {}
The(o) == CHOOSE x \in o : TRUE

Variants == {"A", "B"}
PostIds == {1}
ValidConditions == {"likes", "retweets", "impressions", "comments"}
Comparisons == {"<", "=", ">"}

-----------------------------------------------------------------------------
(* retry_on_db_lock                                                        *)
(*                                                                         *)
(* The wrapped operation is a script: script[i] is what its i-th           *)
(* invocation does.  "ok" returns; "locked" raises OperationalError with   *)
(* 'database is locked' in the message; "db_other" raises OperationalError *)
(* with another message; "other" raises an exception of another class.     *)

OpOutcomes == {"ok", "locked", "db_other", "other"}
Impls == {"agents", "metrics"}

\* Whether the name `time` is the module when retry_on_db_lock runs.
\* agents/views.py imports the module.  metrics/views.py imports the module
\* and then rebinds the name with `from time import time`, so `time.sleep`
\* raises AttributeError there.
TimeIsModule(impl) == impl = "agents"

IsLockErrorAnyMessage(r) == r \in {"locked", "db_other"}

\* `except OperationalError as e` and `"database is locked" in str(e).lower()`
IsLockError(r) == r = "locked"

\* `except OperationalError`
IsOperationalError(r) == r \in {"locked", "db_other"}

NextDelayLinear(delay) == delay + 1

\* delay *= 2
NextDelay(delay) == delay * 2

MaySleepAlways(attempt, max_retries) == attempt < max_retries

\* if attempt < max_retries - 1
MaySleep(attempt, max_retries) == attempt < max_retries - 1

RetryResult(outcome, kind, from, calls, sleeps) ==
    [outcome |-> outcome, kind |-> kind, from |-> from, calls |-> calls,
     sleeps |-> sleeps]

\* The statements after the for loop.  `last` is the invocation whose
\* exception last_exception holds (0: None).
AfterLoop(impl, calls, sleeps, last) ==
    IF last # 0
    THEN RetryResult("raised", "locked", last, calls, sleeps)
    ELSE IF impl = "agents"
         THEN RetryResult("returned", "none", 0, calls, sleeps)
         ELSE RetryResult("raised", "TypeError", 0, calls, sleeps)

RECURSIVE RetryLoop(_, _, _, _, _, _, _)
RetryLoop(impl, script, max_retries, attempt, delay, sleeps, last) ==
    IF attempt >= max_retries
    THEN AfterLoop(impl, attempt, sleeps, last)
    ELSE LET calls == attempt + 1
             r == IF calls <= Len(script) THEN script[calls] ELSE "ok"
         IN  IF r = "ok"
             THEN RetryResult("returned", "value", calls, calls, sleeps)
             ELSE IF ~IsOperationalError(r)
             THEN RetryResult("raised", r, calls, calls, sleeps)
             ELSE IF ~IsLockError(r)
             THEN RetryResult("raised", r, calls, calls, sleeps)
             ELSE IF MaySleep(attempt, max_retries)
             THEN IF TimeIsModule(impl)
                  THEN RetryLoop(impl, script, max_retries, attempt + 1,
                                 NextDelay(delay), Append(sleeps, delay), calls)
                  ELSE RetryResult("raised", "AttributeError", calls, calls, sleeps)
             ELSE IF impl = "agents"
                  THEN RetryResult("raised", "locked", calls, calls, sleeps)
                  ELSE RetryLoop(impl, script, max_retries, attempt + 1,
                                 delay, sleeps, calls)

retry_on_db_lock(impl, script, max_retries, initial_delay) ==
    RetryLoop(impl, script, max_retries, 0, initial_delay, <<>>, 0)

InitialDelays == {DefaultInitialDelay, 3}

RetryCalls ==
    [impl : Impls, max_retries : 0..MaxRetries, initial_delay : InitialDelays,
     script : [1..MaxRetries -> OpOutcomes], res : {None}]

NoRetry ==
    [impl |-> "agents", max_retries |-> 0, initial_delay |-> DefaultInitialDelay,
     script |-> <<>>, res |-> None]

\* One call of the wrapper, to completion.
RetryCall ==
    /\ retry.res = None
    /\ retry' = [retry EXCEPT !.res =
                    Some(retry_on_db_lock(retry.impl, retry.script,
                                          retry.max_retries, retry.initial_delay))]
    /\ UNCHANGED <<posts, pm, variants, workers, now, nchecks, resp, prevResp,
                   fires, parseReq, pubReq, nreqs, uniqueTogether, parseResp, gen, mermaid>>


-----------------------------------------------------------------------------
(* parse_mermaid_diagram                                                   *)

\* A stripped line is a sequence of lexical items.  "<title>" stands for
\* `<title>text</title>` whose text holds no '<', "<title<>" for one whose
\* text holds a '<'; "<description>" is a whole description tag; a header
\* item is `subgraph "P"` with its quoted name.
Headers == {"subgraph P", "subgraph Q"}
Ids == {"X", "Y", "Z"}
Words == Ids \cup {"end", "graph"}          \* what \w+ can match
TitleTags == {"<title>", "<title<>"}

PhaseName(header) == IF header = "subgraph P" THEN "P" ELSE "Q"

NodeLine(id) == <<id, "[", "<title>", "<description>", "]">>

\* The lines diagrams are made of.
LineShapes ==
    { <<>>, <<"graph">>, <<"subgraph P">>, <<"subgraph Q">>, <<"end">>,
      NodeLine("X"), NodeLine("Y"),
      <<"X", "[", "<title>", "]">>,
      <<"X", "[", "<description>", "]">>,
      <<"X", "[", "]">>,
      <<"[", "<title>", "<description>", "]">>,
      <<"X", "<title>", "<description>">>,
      <<"X", "[", "<title<>", "<description>", "]">>,
      <<"X", "[", "<description>", "<title>", "]">>,
      <<"X", "-->", "Y">>,
      <<"X", "-->", "Z">>,
      <<"X", "-->">> \o NodeLine("Y") }

Diagrams == UNION {[1..n -> LineShapes] : n \in 1..MaxLines}

\* re.search: the leftmost position where the pattern matches, 0 for none.
Leftmost(S) == IF S = {} THEN 0 ELSE CHOOSE i \in S : \A j \in S : i <= j

\* subgraph\s+"([^"]+)"
SubgraphMatch(line) ==
    Leftmost({i \in 1..Len(line) : line[i] \in Headers})

\* (\w+)\[<title>([^<]*)</title><description>([^<]*)</description>\]
NodeMatch(line) ==
    Leftmost({i \in 1..(Len(line) - 4) :
                 /\ line[i] \in Words
                 /\ line[i + 1] = "["
                 /\ line[i + 2] = "<title>"
                 /\ line[i + 3] = "<description>"
                 /\ line[i + 4] = "]"})

\* (\w+)\s*-->\s*(\w+)
ConnectionMatch(line) ==
    Leftmost({i \in 1..(Len(line) - 2) :
                 line[i] \in Words /\ line[i + 1] = "-->" /\ line[i + 2] \in Words})

NoParse ==
    [kind |-> "none", pc |-> "returned", lines |-> <<>>, at |-> 0,
     nodes |-> <<>>, connections |-> <<>>, current_phase |-> None]

\* The call with its argument: a falsy value (None, ''), a value that is
\* not a string, or the text of a diagram.
NewParse(kind, lines) ==
    [NoParse EXCEPT !.kind = kind, !.pc = "called", !.lines = lines]

ParseInputs ==
    {NewParse("falsy", <<>>), NewParse("other", <<>>)}
        \cup {NewParse("text", d) : d \in Diagrams}

MermaidFrame ==
    UNCHANGED <<posts, pm, variants, workers, now, nchecks, resp, prevResp, fires,
                parseReq, pubReq, nreqs, retry, uniqueTogether, parseResp, gen>>

\* Lines 47-56: a falsy argument returns the empty result, a failing
\* strip/split does too, a text is split into its lines.
ParseSplit ==
    /\ mermaid.pc = "called"
    /\ mermaid' = IF mermaid.kind = "text"
                  THEN [mermaid EXCEPT !.pc = "lines", !.at = 1]
                  ELSE [mermaid EXCEPT !.pc = "returned"]
    /\ MermaidFrame

\* One iteration of `for line in lines`.
ParseLineOf(m) ==
    LET line == m.lines[m.at]
        next == [m EXCEPT !.at = @ + 1]
    IN  IF line = <<>> THEN next
        ELSE IF SubgraphMatch(line) # 0
             THEN [next EXCEPT !.current_phase =
                                   Some(PhaseName(line[SubgraphMatch(line)]))]
        ELSE IF line = <<"end">> THEN next
        ELSE IF NodeMatch(line) # 0
             THEN [next EXCEPT !.nodes =
                      Append(@, [id |-> line[NodeMatch(line)],
                                 phase |-> IF IsSet(m.current_phase)
                                           THEN The(m.current_phase)
                                           ELSE "Unknown"])]
        ELSE IF ConnectionMatch(line) # 0
             THEN [next EXCEPT !.connections =
                      Append(@, [from |-> line[ConnectionMatch(line)],
                                 to |-> line[ConnectionMatch(line) + 2]])]
        ELSE next

ParseLine ==
    /\ mermaid.pc = "lines"
    /\ mermaid.at <= Len(mermaid.lines)
    /\ mermaid' = ParseLineOf(mermaid)
    /\ MermaidFrame

\* Lines 113-116
ParseReturn ==
    /\ mermaid.pc = "lines"
    /\ mermaid.at > Len(mermaid.lines)
    /\ mermaid' = [mermaid EXCEPT !.pc = "returned"]
    /\ MermaidFrame

-----------------------------------------------------------------------------
(* generate_ab_content_background: the first A/B content of a campaign     *)

\* A campaign as the strategy step stores it (phase 'planning') and the
\* thread started for it: `next` is the post the loop is at, made[p] the
\* variants and assets stored for post p, `writes` the phases the thread
\* has stored, in order.
NewCampaign ==
    [phase |-> "planning", pc |-> "creation", next |-> 1,
     made |-> [p \in 1..CampaignSize |-> {}], writes |-> <<>>]

\* What the database does to one wrapped operation of the thread.
GenScripts ==
    {<<>>, <<"locked">>, [i \in 1..DefaultMaxRetries |-> "locked"], <<"other">>}

\* Every write of the thread goes through agents/views.py's wrapper with
\* its default arguments; delays are counted in units of the default delay.
GenWrapped(script) ==
    retry_on_db_lock("agents", script, DefaultMaxRetries, DefaultInitialDelay)

SetPhase(phase) == [gen EXCEPT !.phase = phase, !.writes = Append(@, phase)]

GenFrame ==
    UNCHANGED <<posts, pm, variants, workers, now, nchecks, resp, prevResp, fires,
                parseReq, pubReq, nreqs, retry, uniqueTogether, parseResp, mermaid>>

\* Step 1: update_campaign_phase_to_creation
GenSetCreation ==
    /\ gen.pc = "creation"
    /\ \E script \in GenScripts :
          gen' = IF GenWrapped(script).outcome = "returned"
                 THEN [SetPhase("content_creation") EXCEPT !.pc = "agents"]
                 ELSE [gen EXCEPT !.pc = "rollback"]
    /\ GenFrame

\* Steps 2 and 3: the agents are built (or their construction raises) and
\* the posts of the campaign are listed.
GenGetPosts ==
    /\ gen.pc = "agents"
    /\ \E built \in BOOLEAN, script \in GenScripts :
          gen' = IF built /\ GenWrapped(script).outcome = "returned"
                 THEN [gen EXCEPT !.pc = "post"]
                 ELSE [gen EXCEPT !.pc = "rollback"]
    /\ GenFrame

\* Step 4, one iteration of `for post in posts`: content_agent.execute,
\* create_variant_a, the media of A, create_variant_b, the media of B; any
\* exception outside the media blocks ends the iteration and the loop
\* continues; a failing image leaves the variant without an asset.
GenPost ==
    /\ gen.pc = "post"
    /\ gen.next <= CampaignSize
    /\ \E written \in BOOLEAN, a \in GenScripts, b \in GenScripts,
          imageA \in BOOLEAN, assetA \in GenScripts,
          imageB \in BOOLEAN, assetB \in GenScripts :
          LET Media(slot, image, asset) ==
                  IF image /\ GenWrapped(asset).outcome = "returned"
                  THEN {slot} ELSE {}
              rows == IF ~written \/ GenWrapped(a).outcome # "returned" THEN {}
                      ELSE IF GenWrapped(b).outcome # "returned"
                           THEN {"A"} \cup Media("assetA", imageA, assetA)
                      ELSE {"A", "B"} \cup Media("assetA", imageA, assetA)
                                     \cup Media("assetB", imageB, assetB)
          IN  gen' = [gen EXCEPT !.made[gen.next] = rows, !.next = @ + 1]
    /\ GenFrame

\* Step 5: update_campaign_phase_to_scheduled
GenSetScheduled ==
    /\ gen.pc = "post"
    /\ gen.next > CampaignSize
    /\ \E script \in GenScripts :
          gen' = IF GenWrapped(script).outcome = "returned"
                 THEN [SetPhase("scheduled") EXCEPT !.pc = "done"]
                 ELSE [gen EXCEPT !.pc = "rollback"]
    /\ GenFrame

\* The outer except: rollback_campaign_phase catches every exception of its
\* own transaction, so the wrapper around it sees the function return at
\* its first invocation; the phase is stored only if that one attempt
\* succeeds.
GenRollback ==
    /\ gen.pc = "rollback"
    /\ \E outcome \in OpOutcomes :
          gen' = IF outcome = "ok"
                 THEN [SetPhase("planning") EXCEPT !.pc = "failed"]
                 ELSE [gen EXCEPT !.pc = "failed"]
    /\ GenFrame

-----------------------------------------------------------------------------
(* The stored rows                                                         *)

\* A JSONField counter of PostMetrics: a dict keyed by variant, or (as
\* Post.save creates it) the integer 0.
Zeros == [v \in Variants |-> 0]
IntCounter == [isdict |-> FALSE, keys |-> {}, val |-> Zeros]
EmptyDict == [isdict |-> TRUE, keys |-> {}, val |-> Zeros]
DictCounter(a, b) ==
    [isdict |-> TRUE, keys |-> Variants,
     val |-> [v \in Variants |-> IF v = "A" THEN a ELSE b]]

\* PostMetrics.objects.create(likes=0, impressions=0, retweets=0): comments
\* and tweet_id take the field default, an empty dict.
NewPostMetrics ==
    [likes |-> IntCounter, retweets |-> IntCounter, impressions |-> IntCounter,
     comments |-> EmptyDict, tweet_id |-> {}]

\* A Post as the strategy step creates it: draft, never posted, no trigger,
\* its PostMetrics row created by Post.save.
NewPost(p) ==
    [status |-> "draft", posted_time |-> None,
     trigger_condition |-> None, trigger_value |-> None,
     trigger_comparison |-> None, trigger_prompt |-> None,
     metrics |-> Some(p)]

\* ContentVariant.objects.create(post=..., variant_id=..., ...): `by` is the
\* thread that wrote the content (0: the campaign's content generation).
NewVariant(p, slot, regenerated, by) ==
    [post |-> p, variant_id |-> slot, regenerated |-> regenerated,
     asset |-> FALSE, by |-> by]

\* The rows of post p in slot `slot`, oldest first (positions in `variants`).
SlotRows(vs, p, slot) ==
    {i \in 1..Len(vs) : vs[i].post = p /\ vs[i].variant_id = slot}

MaxOf(S) == CHOOSE x \in S : \A y \in S : y <= x

Oldest(vs, p, slot) ==
    LET S == SlotRows(vs, p, slot)
    IN  IF S = {} THEN None ELSE Some(CHOOSE x \in S : \A y \in S : x <= y)

\* ContentVariant.objects.filter(variant_id=slot, post=post)
\*     .order_by('-created_at').first()
Latest(vs, p, slot) ==
    LET S == SlotRows(vs, p, slot)
    IN  IF S = {} THEN None ELSE Some(MaxOf(S))

-----------------------------------------------------------------------------
(* checkTrigger: the evaluation                                            *)

\* PostMetrics.get_variant_metrics
get_variant_metrics(m, variant) ==
    [c \in ValidConditions |->
        IF m[c].isdict /\ variant \in m[c].keys THEN m[c].val[variant] ELSE 0]

\* metrics_a.get(post.trigger_condition, 0)
MetricGet(vm, condition) ==
    IF condition \in DOMAIN vm THEN vm[condition] ELSE 0

CompareInclusive(comparison, value, threshold) ==
    CASE comparison = "<" -> value <= threshold
      [] comparison = "=" -> value = threshold
      [] comparison = ">" -> value >= threshold
      [] OTHER -> FALSE

\* the if / elif chain on post.trigger_comparison
Compare(comparison, value, threshold) ==
    CASE comparison = "<" -> value < threshold
      [] comparison = "=" -> value = threshold
      [] comparison = ">" -> value > threshold
      [] OTHER -> FALSE

QueryFilterAnyStatus(post) ==
    /\ IsSet(post.trigger_condition)
    /\ IsSet(post.trigger_value)
    /\ IsSet(post.trigger_comparison)

\* Post.objects.filter(status="published", trigger_condition__isnull=False,
\*     trigger_value__isnull=False, trigger_comparison__isnull=False)
QueryFilter(post) ==
    /\ post.status = "published"
    /\ IsSet(post.trigger_condition)
    /\ IsSet(post.trigger_value)
    /\ IsSet(post.trigger_comparison)

\* if not post.posted_time or not post.metrics: continue
Skipped(post) == post.posted_time = None \/ post.metrics = None

RECURSIVE Ascending(_)
Ascending(S) ==
    IF S = {} THEN <<>>
    ELSE LET x == CHOOSE y \in S : \A z \in S : y <= z
         IN  <<x>> \o Ascending(S \ {x})

\* .order_by('created_at'): the posts of a campaign are created in pk order
OrderByCreatedAt(S) == Ascending(S)

TriggerEventAfterDuration(P, M, t, p) ==
    LET post == P[p]
        m == M[The(post.metrics)]
        a == MetricGet(get_variant_metrics(m, "A"), The(post.trigger_condition))
        b == MetricGet(get_variant_metrics(m, "B"), The(post.trigger_condition))
        due == t - The(post.posted_time) >= 1
        is_a == due /\ Compare(The(post.trigger_comparison), a, The(post.trigger_value))
        is_b == due /\ Compare(The(post.trigger_comparison), b, The(post.trigger_value))
    IN  [post_pk |-> p,
         trigger_condition |-> The(post.trigger_condition),
         trigger_value |-> The(post.trigger_value),
         trigger_comparison |-> The(post.trigger_comparison),
         current_value_a |-> a,
         current_value_b |-> b,
         triggered_variants |-> (IF is_a THEN <<"A">> ELSE <<>>)
                                  \o (IF is_b THEN <<"B">> ELSE <<>>),
         elapsed_time_seconds |-> t - The(post.posted_time),
         trigger_prompt |-> post.trigger_prompt]

\* The dict appended to triggeredPosts.
TriggerEvent(P, M, t, p) ==
    LET post == P[p]
        m == M[The(post.metrics)]
        a == MetricGet(get_variant_metrics(m, "A"), The(post.trigger_condition))
        b == MetricGet(get_variant_metrics(m, "B"), The(post.trigger_condition))
        is_a == Compare(The(post.trigger_comparison), a, The(post.trigger_value))
        is_b == Compare(The(post.trigger_comparison), b, The(post.trigger_value))
    IN  [post_pk |-> p,
         trigger_condition |-> The(post.trigger_condition),
         trigger_value |-> The(post.trigger_value),
         trigger_comparison |-> The(post.trigger_comparison),
         current_value_a |-> a,
         current_value_b |-> b,
         triggered_variants |-> (IF is_a THEN <<"A">> ELSE <<>>)
                                  \o (IF is_b THEN <<"B">> ELSE <<>>),
         elapsed_time_seconds |-> t - The(post.posted_time),
         trigger_prompt |-> post.trigger_prompt]

RECURSIVE EvalLoopGated(_, _, _, _)
EvalLoopGated(P, M, t, queue) ==
    IF queue = <<>> THEN <<>>
    ELSE LET p == Head(queue)
             rest == EvalLoopGated(P, M, t, Tail(queue))
         IN  IF Skipped(P[p]) \/ t - The(P[p].posted_time) < 1 THEN rest
             ELSE LET e == TriggerEvent(P, M, t, p)
                  IN  IF e.triggered_variants # <<>> THEN <<e>> \o rest ELSE rest

\* for post in posts: skip, compare, append
RECURSIVE EvalLoop(_, _, _, _)
EvalLoop(P, M, t, queue) ==
    IF queue = <<>> THEN <<>>
    ELSE LET p == Head(queue)
             rest == EvalLoop(P, M, t, Tail(queue))
         IN  IF Skipped(P[p]) THEN rest
             ELSE LET e == TriggerEvent(P, M, t, p)
                  IN  IF e.triggered_variants # <<>> THEN <<e>> \o rest ELSE rest

\* triggeredPosts, as checkTrigger builds it from the store at time t
Evaluate(P, M, t) ==
    EvalLoop(P, M, t, OrderByCreatedAt({p \in DOMAIN P : QueryFilter(P[p])}))

-----------------------------------------------------------------------------
(* checkTrigger: the request                                               *)

\* regenerate_content_background starts with the event it was handed.
NewWorker(e, vs) ==
    [data |-> e, pc |-> "analyze", at |-> "none", prior |-> vs,
     va |-> None, vb |-> None, imgA |-> "none", imgB |-> "none",
     why |-> "none", calls |-> 0, read |-> [v \in Variants |-> None]]

\* threading.Thread(target=regenerate_content_background, ...).start(), for
\* each event; `vs` is the ContentVariant table at that moment.
RECURSIVE StartThreads(_, _)
StartThreads(events, vs) ==
    IF events = <<>> THEN <<>>
    ELSE <<NewWorker(Head(events), vs)>> \o StartThreads(Tail(events), vs)

EventPosts(events) == {events[i].post_pk : i \in 1..Len(events)}

\* The events whose thread could be started: regeneration_thread.start() is
\* inside try / except Exception with `continue`, so an event whose thread
\* cannot be started stays in the response without a worker.
RECURSIVE Launched(_, _, _)
Launched(events, started, i) ==
    IF i > Len(events) THEN <<>>
    ELSE (IF i \in started THEN <<events[i]>> ELSE <<>>)
            \o Launched(events, started, i + 1)

CheckTriggerClearing ==
    /\ nchecks < MaxChecks
    /\ LET events == Evaluate(posts, pm, now)
       IN  /\ workers' = workers \o StartThreads(events, variants)
           /\ resp' = Some(events)
           /\ posts' = [p \in DOMAIN posts |->
                           IF p \in EventPosts(events)
                           THEN [posts[p] EXCEPT !.trigger_condition = None,
                                                 !.trigger_value = None,
                                                 !.trigger_comparison = None,
                                                 !.trigger_prompt = None]
                           ELSE posts[p]]
           /\ fires' = [p \in DOMAIN fires |->
                           IF p \in EventPosts(events) THEN fires[p] + 1 ELSE fires[p]]
    /\ prevResp' = resp
    /\ nchecks' = nchecks + 1
    /\ UNCHANGED <<pm, variants, now, parseReq, pubReq, nreqs, retry, uniqueTogether, parseResp, gen, mermaid>>

CheckTriggerReportingStarted ==
    /\ nchecks < MaxChecks
    /\ LET events == Evaluate(posts, pm, now)
       IN  /\ \E started \in SUBSET (1..Len(events)) :
                 /\ workers' = workers \o StartThreads(Launched(events, started, 1), variants)
                 /\ resp' = Some(Launched(events, started, 1))
           /\ fires' = [p \in DOMAIN fires |->
                           IF p \in EventPosts(events) THEN fires[p] + 1 ELSE fires[p]]
    /\ prevResp' = resp
    /\ nchecks' = nchecks + 1
    /\ UNCHANGED <<posts, pm, variants, now, parseReq, pubReq, nreqs, retry, uniqueTogether, parseResp, gen, mermaid>>

\* GET check-triggers: evaluate, start a thread for each event, respond.
CheckTrigger ==
    /\ nchecks < MaxChecks
    /\ LET events == Evaluate(posts, pm, now)
       IN  /\ \E started \in SUBSET (1..Len(events)) :
                 workers' = workers \o StartThreads(Launched(events, started, 1), variants)
           /\ resp' = Some(events)
           /\ fires' = [p \in DOMAIN fires |->
                           IF p \in EventPosts(events) THEN fires[p] + 1 ELSE fires[p]]
    /\ prevResp' = resp
    /\ nchecks' = nchecks + 1
    /\ UNCHANGED <<posts, pm, variants, now, parseReq, pubReq, nreqs, retry, uniqueTogether, parseResp, gen, mermaid>>

\* The clock advances between requests.
Tick ==
    /\ now < MaxTime
    /\ now' = now + 1
    /\ UNCHANGED <<posts, pm, variants, workers, nchecks, resp, prevResp,
                   fires, parseReq, pubReq, nreqs, retry, uniqueTogether, parseResp, gen, mermaid>>

-----------------------------------------------------------------------------
(* parseTrigger                                                            *)

\* What the trigger parser returns: TriggerConfig(value, comparison, prompt).
ParsedValues == {4}
RequestedConditions == {"likes", "comments"}
ParsedConfigs == [value : ParsedValues, comparison : Comparisons, prompt : {"p1"}]

\* request.data of the requests sent to parseTrigger: "" and 0 stand for a
\* field that is absent, "shares" for a condition outside valid_conditions,
\* UnknownPk for a pk with no Post row.
UnknownPk == 2
ParseRequests ==
    [pk : PostIds, condition : RequestedConditions, prompt : {"p1"}]
       \cup {[pk |-> 0, condition |-> "likes", prompt |-> "p1"],
             [pk |-> 1, condition |-> "", prompt |-> "p1"],
             [pk |-> 1, condition |-> "likes", prompt |-> ""],
             [pk |-> 1, condition |-> "shares", prompt |-> "p1"],
             [pk |-> UnknownPk, condition |-> "likes", prompt |-> "p1"],
             [pk |-> UnknownPk, condition |-> "shares", prompt |-> "p1"]}

\* The status parseTrigger answers with before it calls the parser: 400 for
\* a missing field or an invalid condition, 404 for an unknown post, and 0
\* when it goes on to the parser.
ParseTriggerStatus(P, req) ==
    IF req.pk = 0 \/ req.condition = "" \/ req.prompt = "" THEN 400
    ELSE IF req.condition \notin ValidConditions THEN 400
    ELSE IF req.pk \notin DOMAIN P THEN 404
    ELSE 0

ParseResponse(n, req, status) == Some([n |-> n, request |-> req, status |-> status])

\* parseTrigger answers 400 or 404 and returns.
ParseTriggerReject ==
    /\ nreqs < MaxRequests
    /\ nreqs' = nreqs + 1
    /\ \E req \in ParseRequests :
          /\ ParseTriggerStatus(posts, req) # 0
          /\ parseResp' = ParseResponse(nreqs + 1, req, ParseTriggerStatus(posts, req))
    /\ UNCHANGED <<posts, pm, variants, workers, now, nchecks, resp, prevResp,
                   fires, parseReq, pubReq, retry, uniqueTogether, gen, mermaid>>

\* post = Post.objects.get(pk=pk): the row the request will write back
ParseTriggerRead ==
    /\ parseReq = None
    /\ nreqs < MaxRequests
    /\ \E req \in ParseRequests :
          /\ ParseTriggerStatus(posts, req) = 0
          /\ parseReq' = Some([pk |-> req.pk, condition |-> req.condition,
                               prompt |-> req.prompt, row |-> posts[req.pk]])
    /\ nreqs' = nreqs + 1
    /\ UNCHANGED <<posts, pm, variants, workers, now, nchecks, resp, prevResp,
                   fires, pubReq, retry, uniqueTogether, parseResp, gen, mermaid>>

ParseTriggerSavePartial ==
    /\ parseReq # None
    /\ LET r == The(parseReq)
           req == [pk |-> r.pk, condition |-> r.condition, prompt |-> r.prompt]
       IN  \/ /\ \E c \in ParsedConfigs :
                    posts' = [posts EXCEPT ![r.pk] =
                                 [r.row EXCEPT !.trigger_condition = Some(r.condition),
                                               !.trigger_value = Some(c.value),
                                               !.trigger_comparison = Some(c.comparison),
                                               !.trigger_prompt = Some(c.prompt)]]
              /\ fires' = [fires EXCEPT ![r.pk] = 0]
              /\ parseResp' = ParseResponse(nreqs, req, 200)
           \/ /\ posts' = [posts EXCEPT ![r.pk] =
                               [r.row EXCEPT !.trigger_condition = Some(r.condition)]]
              /\ UNCHANGED fires
              /\ parseResp' = ParseResponse(nreqs, req, 500)
    /\ parseReq' = None
    /\ UNCHANGED <<pm, variants, workers, now, nchecks, resp, prevResp, pubReq,
                   nreqs, retry, uniqueTogether, gen, mermaid>>

\* The parser answers with a TriggerConfig: the four assignments and
\* post.save(), which writes every column of the row read above, and the
\* response 200.  Or the parser raises: the request ends with status 500
\* and nothing is saved.
ParseTriggerSave ==
    /\ parseReq # None
    /\ LET r == The(parseReq)
           req == [pk |-> r.pk, condition |-> r.condition, prompt |-> r.prompt]
       IN  \/ /\ \E c \in ParsedConfigs :
                    posts' = [posts EXCEPT ![r.pk] =
                                 [r.row EXCEPT !.trigger_condition = Some(r.condition),
                                               !.trigger_value = Some(c.value),
                                               !.trigger_comparison = Some(c.comparison),
                                               !.trigger_prompt = Some(c.prompt)]]
              /\ fires' = [fires EXCEPT ![r.pk] = 0]
              /\ parseResp' = ParseResponse(nreqs, req, 200)
           \/ /\ UNCHANGED <<posts, fires>>
              /\ parseResp' = ParseResponse(nreqs, req, 500)
    /\ parseReq' = None
    /\ UNCHANGED <<pm, variants, workers, now, nchecks, resp, prevResp, pubReq,
                   nreqs, retry, uniqueTogether, gen, mermaid>>

-----------------------------------------------------------------------------
(* createXPost and getXPostMetrics                                         *)

\* post = Post.objects.get(pk=pk) and the latest variant of each slot
CreateXPostRead ==
    /\ pubReq = None
    /\ nreqs < MaxRequests
    /\ nreqs' = nreqs + 1
    /\ \E pk \in PostIds :
          pubReq' = Some([op |-> "createXPost", pk |-> pk, row |-> posts[pk],
                          latest |-> [v \in Variants |-> Latest(variants, pk, v)]])
    /\ UNCHANGED <<posts, pm, variants, workers, now, nchecks, resp, prevResp,
                   fires, parseReq, retry, uniqueTogether, parseResp, gen, mermaid>>

\* The platform accepts or refuses each of the two tweets; `results` holds the
\* accepted ones.  With a result: tweet_id is updated and the post is saved
\* as published with posted_time = now.
CreateXPostSave ==
    /\ pubReq # None
    /\ The(pubReq).op = "createXPost"
    /\ LET r == The(pubReq)
       IN  \E results \in SUBSET {v \in Variants : IsSet(r.latest[v])} :
              /\ pm' = IF IsSet(r.row.metrics) /\ results # {}
                       THEN [pm EXCEPT ![The(r.row.metrics)].tweet_id = @ \cup results]
                       ELSE pm
              /\ posts' = IF results # {}
                          THEN [posts EXCEPT ![r.pk] =
                                   [r.row EXCEPT !.status = "published",
                                                 !.posted_time = Some(now)]]
                          ELSE posts
    /\ pubReq' = None
    /\ UNCHANGED <<variants, workers, now, nchecks, resp, prevResp, fires,
                   parseReq, nreqs, retry, uniqueTogether, parseResp, gen, mermaid>>

\* approveAllNodes, for a campaign with one post: the draft posts of the
\* campaign and the latest variant of each slot.
ApproveAllNodesRead ==
    /\ pubReq = None
    /\ nreqs < MaxRequests
    /\ nreqs' = nreqs + 1
    /\ \E pk \in PostIds :
          /\ posts[pk].status = "draft"
          /\ pubReq' = Some([op |-> "approveAllNodes", pk |-> pk, row |-> posts[pk],
                             latest |-> [v \in Variants |-> Latest(variants, pk, v)]])
    /\ UNCHANGED <<posts, pm, variants, workers, now, nchecks, resp, prevResp,
                   fires, parseReq, retry, uniqueTogether, parseResp, gen, mermaid>>

ApproveAllNodesSaveAlways ==
    /\ pubReq # None
    /\ The(pubReq).op = "approveAllNodes"
    /\ LET r == The(pubReq)
       IN  \E results \in SUBSET {v \in Variants : IsSet(r.latest[v])} :
              /\ pm' = IF IsSet(r.row.metrics)
                       THEN [pm EXCEPT ![The(r.row.metrics)].tweet_id = results]
                       ELSE pm
              /\ posts' = [posts EXCEPT ![r.pk] =
                              [r.row EXCEPT !.status = "published",
                                            !.posted_time = Some(now)]]
    /\ pubReq' = None
    /\ UNCHANGED <<variants, workers, now, nchecks, resp, prevResp, fires,
                   parseReq, nreqs, retry, uniqueTogether, parseResp, gen, mermaid>>

\* The platform accepts or refuses each tweet.  With a result: tweet_id is
\* replaced by `results` and the post is saved as published with
\* posted_time = now; with none the post is reported as failed.
ApproveAllNodesSave ==
    /\ pubReq # None
    /\ The(pubReq).op = "approveAllNodes"
    /\ LET r == The(pubReq)
       IN  \E results \in SUBSET {v \in Variants : IsSet(r.latest[v])} :
              /\ pm' = IF IsSet(r.row.metrics) /\ results # {}
                       THEN [pm EXCEPT ![The(r.row.metrics)].tweet_id = results]
                       ELSE pm
              /\ posts' = IF results # {}
                          THEN [posts EXCEPT ![r.pk] =
                                   [r.row EXCEPT !.status = "published",
                                                 !.posted_time = Some(now)]]
                          ELSE posts
    /\ pubReq' = None
    /\ UNCHANGED <<variants, workers, now, nchecks, resp, prevResp, fires,
                   parseReq, nreqs, retry, uniqueTogether, parseResp, gen, mermaid>>

\* The count the platform reports for a metric of a tweet.
TweetCounts == {0, 4}

\* What getXPostMetrics stores for a variant: 0 without a tweet_id, or when
\* the platform does not answer with the tweet; else the reported count.
Reported(m, v) == IF v \in m.tweet_id THEN TweetCounts ELSE {0}

\* getXPostMetrics: every counter is rewritten as a dict with both keys
\* (likes, retweets and impressions as reported, no replies).
GetXPostMetrics ==
    /\ nreqs < MaxRequests
    /\ nreqs' = nreqs + 1
    /\ \E pk \in PostIds :
          /\ IsSet(posts[pk].metrics)
          /\ LET id == The(posts[pk].metrics)
             IN  \E a \in Reported(pm[id], "A"), b \in Reported(pm[id], "B") :
                    pm' = [pm EXCEPT ![id] =
                              [@ EXCEPT !.likes = DictCounter(a, b),
                                        !.retweets = DictCounter(a, b),
                                        !.impressions = DictCounter(a, b),
                                        !.comments = DictCounter(0, 0)]]
    /\ UNCHANGED <<posts, variants, workers, now, nchecks, resp, prevResp, fires,
                   parseReq, pubReq, retry, uniqueTogether, parseResp, gen, mermaid>>

-----------------------------------------------------------------------------
(* regenerate_content_background, the Regeneration Worker                  *)

\* What the database does to one wrapped operation: it succeeds, or it is
\* locked once and then succeeds.
WorkerScripts == {<<>>, <<"locked">>}

\* Every access of the worker goes through metrics/views.py's wrapper.
Wrapped(script) ==
    retry_on_db_lock("metrics", script, DefaultMaxRetries, DefaultInitialDelay)

\* save_asset_a / save_asset_b build the file name from int(time.time()):
\* where `time` is not the module the operation itself raises.
SaveAssetScript(script) == IF TimeIsModule("metrics") THEN script ELSE <<"other">>

\* ContentVariant.objects.create for slot `slot` of post p raises
\* IntegrityError: unique_together = [['post', 'variant_id']], where the
\* database holds the index (it is built by the app's migrations, which the
\* source tree does not carry).
CreateRefused(vs, p, slot) == uniqueTogether /\ SlotRows(vs, p, slot) # {}

update_post_status_keeping_prompt(post) ==
    [post EXCEPT !.status = "draft",
                 !.trigger_condition = None, !.trigger_value = None,
                 !.trigger_comparison = None]

update_post_status_unposting(post) ==
    [post EXCEPT !.status = "draft", !.posted_time = None,
                 !.trigger_condition = None, !.trigger_value = None,
                 !.trigger_comparison = None, !.trigger_prompt = None]

\* post.status = 'draft' and the four trigger columns = None
update_post_status(post) ==
    [post EXCEPT !.status = "draft",
                 !.trigger_condition = None, !.trigger_value = None,
                 !.trigger_comparison = None, !.trigger_prompt = None]

Goto(w, pc) == [workers EXCEPT ![w].pc = pc]
\* The worker goes on to its next step.  Leaving the load and analysis step
\* it has read, for each slot, the content of
\* post.variants.filter(variant_id=slot).order_by('-created_at').first().
Proceed(w, from, to) ==
    IF from = "analyze"
    THEN [Goto(w, to) EXCEPT ![w].read =
             [v \in Variants |-> Latest(variants, workers[w].data.post_pk, v)]]
    ELSE Goto(w, to)

\* The outer `except Exception`: the thread logs the exception and ends.
\* `why` is the exception, `calls` the number of times the wrapper invoked
\* the operation that raised it.
Fail(w, why, calls) ==
    [workers EXCEPT ![w].pc = "failed", ![w].at = workers[w].pc,
                    ![w].why = why, ![w].calls = calls]

\* Post.objects.get(pk=...) for a pk with no row raises Post.DoesNotExist,
\* an exception of another class than OperationalError, once the database
\* answers.
GetScript(P, pk, script) == IF pk \in DOMAIN P THEN script ELSE script \o <<"other">>

WorkerThinkResetting(w, from, to) ==
    /\ workers[w].pc = from
    /\ \E script \in WorkerScripts, ok \in BOOLEAN :
          LET res == Wrapped(GetScript(posts, workers[w].data.post_pk, script))
          IN  IF res.outcome = "returned" /\ ok
              THEN /\ workers' = Proceed(w, from, to)
                   /\ posts' = posts
              ELSE /\ workers' = Fail(w, IF res.outcome = "raised" THEN res.kind ELSE "llm",
                                      res.calls)
                   /\ posts' = [posts EXCEPT ![workers[w].data.post_pk] =
                                    update_post_status(@)]
    /\ UNCHANGED <<pm, variants, now, nchecks, resp, prevResp, fires,
                   parseReq, pubReq, nreqs, retry, uniqueTogether, parseResp, gen, mermaid>>

WorkerThinkRestoring(w, from, to) ==
    /\ workers[w].pc = from
    /\ LET pk == workers[w].data.post_pk
       IN  \E script \in WorkerScripts, ok \in BOOLEAN :
              LET res == Wrapped(GetScript(posts, pk, script))
              IN  /\ workers' = IF res.outcome = "returned" /\ ok
                                THEN Proceed(w, from, to)
                                ELSE Fail(w, IF res.outcome = "raised" THEN res.kind ELSE "llm",
                                          res.calls)
                  /\ posts' = IF pk \in DOMAIN posts THEN posts
                              ELSE [p \in DOMAIN posts \cup {pk} |->
                                       IF p = pk THEN NewPost(pk) ELSE posts[p]]
    /\ UNCHANGED <<pm, variants, now, nchecks, resp, prevResp, fires,
                   parseReq, pubReq, nreqs, retry, uniqueTogether, parseResp, gen, mermaid>>

\* get_post, the metrics of the latest variants and metrics_analyzer.execute
\* (whose success is required); then get_post_data and
\* content_creator.execute.  The reads go through the wrapper, the language
\* model answers or fails.
WorkerThink(w, from, to) ==
    /\ workers[w].pc = from
    /\ \E script \in WorkerScripts, ok \in BOOLEAN :
          LET res == Wrapped(GetScript(posts, workers[w].data.post_pk, script))
          IN  workers' = IF res.outcome = "returned" /\ ok
                         THEN Proceed(w, from, to)
                         ELSE Fail(w, IF res.outcome = "raised" THEN res.kind ELSE "llm",
                                   res.calls)
    /\ UNCHANGED <<posts, pm, variants, now, nchecks, resp, prevResp, fires,
                   parseReq, pubReq, nreqs, retry, uniqueTogether, parseResp, gen, mermaid>>

WorkerAnalyze(w) == WorkerThink(w, "analyze", "generate")
WorkerGenerateThenB(w) == WorkerThink(w, "generate", "createB")
WorkerGenerate(w) == WorkerThink(w, "generate", "createA")

\* create_variant_a / create_variant_b
WorkerCreate(w, slot, from, to) ==
    /\ workers[w].pc = from
    /\ LET p == workers[w].data.post_pk
       IN  \E script \in WorkerScripts :
              IF Wrapped(script).outcome = "returned" /\ ~CreateRefused(variants, p, slot)
                 /\ p \in DOMAIN posts
              THEN /\ variants' = Append(variants, NewVariant(p, slot, TRUE, w))
                   /\ workers' = IF slot = "A"
                                 THEN [Goto(w, to) EXCEPT ![w].va = Some(Len(variants) + 1)]
                                 ELSE [Goto(w, to) EXCEPT ![w].vb = Some(Len(variants) + 1)]
              ELSE /\ variants' = variants
                   /\ workers' = Fail(w, IF Wrapped(script).outcome = "raised"
                                         THEN Wrapped(script).kind ELSE "IntegrityError",
                                      Wrapped(script).calls)
    /\ UNCHANGED <<posts, pm, now, nchecks, resp, prevResp, fires,
                   parseReq, pubReq, nreqs, retry, uniqueTogether, parseResp, gen, mermaid>>

WorkerCreateA(w) == WorkerCreate(w, "A", "createA", "mediaA")
WorkerCreateB(w) == WorkerCreate(w, "B", "createB", "mediaB")

WorkerMediaAborting(w, slot, from, to) ==
    /\ workers[w].pc = from
    /\ \E generated \in BOOLEAN :
          workers' = IF generated
                     THEN IF slot = "A"
                          THEN [Goto(w, to) EXCEPT ![w].imgA = "failed"]
                          ELSE [Goto(w, to) EXCEPT ![w].imgB = "failed"]
                     ELSE Fail(w, "media", 0)
    /\ UNCHANGED <<posts, pm, variants, now, nchecks, resp, prevResp, fires,
                   parseReq, pubReq, nreqs, retry, uniqueTogether, parseResp, gen, mermaid>>

\* The media step of one variant, inside its own try / except: the image is
\* generated or not; a generated image is attached through the wrapper.
WorkerMedia(w, slot, from, to) ==
    /\ workers[w].pc = from
    /\ LET row == The(IF slot = "A" THEN workers[w].va ELSE workers[w].vb)
       IN  \E generated \in BOOLEAN, script \in WorkerScripts :
              LET saved == generated
                           /\ Wrapped(SaveAssetScript(script)).outcome = "returned"
                           /\ variants[row].post \in DOMAIN posts
                  img == IF saved THEN "saved" ELSE "failed"
              IN  /\ variants' = IF saved THEN [variants EXCEPT ![row].asset = TRUE]
                                 ELSE variants
                  /\ workers' = IF slot = "A"
                                THEN [Goto(w, to) EXCEPT ![w].imgA = img]
                                ELSE [Goto(w, to) EXCEPT ![w].imgB = img]
    /\ UNCHANGED <<posts, pm, now, nchecks, resp, prevResp, fires,
                   parseReq, pubReq, nreqs, retry, uniqueTogether, parseResp, gen, mermaid>>

WorkerMediaA(w) == WorkerMedia(w, "A", "mediaA", "createB")
WorkerMediaB(w) == WorkerMedia(w, "B", "mediaB", "finalize")

WorkerFinalizeCompensating(w) ==
    /\ workers[w].pc = "finalize"
    /\ LET p == workers[w].data.post_pk
       IN  \E script \in WorkerScripts :
              LET res == Wrapped(GetScript(posts, p, script))
              IN  IF res.outcome = "returned"
                  THEN /\ posts' = [posts EXCEPT ![p] = update_post_status(posts[p])]
                       /\ workers' = Goto(w, "done")
                  ELSE /\ posts' = [posts EXCEPT ![p].trigger_condition = None,
                                                 ![p].trigger_value = None,
                                                 ![p].trigger_comparison = None,
                                                 ![p].trigger_prompt = None]
                       /\ workers' = Fail(w, res.kind, res.calls)
    /\ UNCHANGED <<pm, variants, now, nchecks, resp, prevResp, fires, parseReq,
                   pubReq, nreqs, retry, uniqueTogether, parseResp, gen, mermaid>>

\* update_post_status: reads the post, resets it, post.save()
WorkerFinalize(w) ==
    /\ workers[w].pc = "finalize"
    /\ LET p == workers[w].data.post_pk
       IN  \E script \in WorkerScripts :
              LET res == Wrapped(GetScript(posts, p, script))
              IN  IF res.outcome = "returned"
                  THEN /\ posts' = [posts EXCEPT ![p] = update_post_status(posts[p])]
                       /\ workers' = Goto(w, "done")
                  ELSE /\ posts' = posts
                       /\ workers' = Fail(w, res.kind, res.calls)
    /\ UNCHANGED <<pm, variants, now, nchecks, resp, prevResp, fires, parseReq,
                   pubReq, nreqs, retry, uniqueTogether, parseResp, gen, mermaid>>

\* rejectNode: post.delete(), which deletes the post's ContentVariant rows
\* with it (their positions stay, so that created_at order is kept; post 0
\* marks a deleted row).  The PostMetrics row is not deleted.
DeletedRow(v) == [v EXCEPT !.post = 0]

RejectNode ==
    /\ \E pk \in DOMAIN posts :
          /\ posts' = [p \in DOMAIN posts \ {pk} |-> posts[p]]
          /\ variants' = [i \in 1..Len(variants) |->
                             IF variants[i].post = pk THEN DeletedRow(variants[i])
                             ELSE variants[i]]
    /\ UNCHANGED <<pm, workers, now, nchecks, resp, prevResp, fires, parseReq,
                   pubReq, nreqs, retry, uniqueTogether, parseResp, gen, mermaid>>

WorkerStep(w) ==
    \/ WorkerAnalyze(w) \/ WorkerGenerate(w)
    \/ WorkerCreateA(w) \/ WorkerMediaA(w) \/ WorkerCreateB(w) \/ WorkerMediaB(w)
    \/ WorkerFinalize(w)

-----------------------------------------------------------------------------
(* The pipeline                                                            *)

\* A campaign of one draft post with the A and B variants written by the
\* content generation.
InitialVariants ==
    <<NewVariant(1, "A", FALSE, 0), NewVariant(1, "B", FALSE, 0)>>

\* No request served yet, no thread started.
Idle ==
    /\ workers = <<>>
    /\ now = 0
    /\ nchecks = 0
    /\ resp = None
    /\ prevResp = None
    /\ parseReq = None
    /\ pubReq = None
    /\ nreqs = 0
    /\ parseResp = None
    /\ gen = NewCampaign
    /\ mermaid = NoParse

Init ==
    /\ posts = [p \in PostIds |-> NewPost(p)]
    /\ pm = [p \in PostIds |-> NewPostMetrics]
    /\ variants = InitialVariants
    /\ fires = [p \in PostIds |-> 0]
    /\ Idle
    /\ retry = NoRetry
    /\ uniqueTogether \in BOOLEAN

Next ==
    \/ ParseTriggerReject
    \/ ParseTriggerRead
    \/ ParseTriggerSave
    \/ CreateXPostRead
    \/ CreateXPostSave
    \/ ApproveAllNodesRead
    \/ ApproveAllNodesSave
    \/ GetXPostMetrics
    \/ CheckTrigger
    \/ \E w \in 1..Len(workers) : WorkerStep(w)

Spec == Init /\ [][Next]_vars


-----------------------------------------------------------------------------
(* Posts rejected while check-triggers and its workers run                 *)

\* Two published posts of a campaign; the trigger of post 1 fires (no likes
\* yet), post 2 has the same trigger or none.
FiringPost(p) ==
    [status |-> "published", posted_time |-> Some(0),
     trigger_condition |-> Some("likes"), trigger_value |-> Some(4),
     trigger_comparison |-> Some("<"), trigger_prompt |-> Some("p1"),
     metrics |-> Some(p)]

PublishedPost(p) == [NewPost(p) EXCEPT !.status = "published", !.posted_time = Some(0)]

InitReject ==
    /\ \E second \in {FiringPost(2), PublishedPost(2)} :
          posts = [p \in {1, 2} |-> IF p = 1 THEN FiringPost(1) ELSE second]
    /\ pm = [p \in {1, 2} |-> [NewPostMetrics EXCEPT !.tweet_id = Variants]]
    /\ variants = <<NewVariant(1, "A", FALSE, 0), NewVariant(1, "B", FALSE, 0),
                    NewVariant(2, "A", FALSE, 0), NewVariant(2, "B", FALSE, 0)>>
    /\ fires = [p \in {1, 2} |-> 0]
    /\ workers = <<>>
    /\ now = 0
    /\ nchecks = MaxChecks - 1    \* one check-triggers request is served
    /\ resp = None
    /\ prevResp = None
    /\ parseReq = None
    /\ pubReq = None
    /\ nreqs = 0
    /\ parseResp = None
    /\ gen = NewCampaign
    /\ mermaid = NoParse
    /\ retry = NoRetry
    /\ uniqueTogether = FALSE

NextReject ==
    \/ CheckTrigger
    \/ RejectNode
    \/ \E w \in 1..Len(workers) : WorkerStep(w)

SpecReject == InitReject /\ [][NextReject]_vars

-----------------------------------------------------------------------------
(* The content generation of a new campaign                                *)

InitGen ==
    /\ posts = [p \in PostIds |-> NewPost(p)]
    /\ pm = [p \in PostIds |-> NewPostMetrics]
    /\ variants = <<>>
    /\ fires = [p \in PostIds |-> 0]
    /\ Idle
    /\ retry = NoRetry
    /\ uniqueTogether = FALSE

NextGen ==
    \/ GenSetCreation
    \/ GenGetPosts
    \/ GenPost
    \/ GenSetScheduled
    \/ GenRollback

SpecGen == InitGen /\ [][NextGen]_vars

-----------------------------------------------------------------------------
(* One call of parse_mermaid_diagram                                       *)

InitParser ==
    /\ posts = [p \in PostIds |-> NewPost(p)]
    /\ pm = [p \in PostIds |-> NewPostMetrics]
    /\ variants = <<>>
    /\ fires = [p \in PostIds |-> 0]
    /\ workers = <<>>
    /\ now = 0
    /\ nchecks = 0
    /\ resp = None
    /\ prevResp = None
    /\ parseReq = None
    /\ pubReq = None
    /\ nreqs = 0
    /\ parseResp = None
    /\ gen = NewCampaign
    /\ retry = NoRetry
    /\ uniqueTogether = FALSE
    /\ mermaid \in ParseInputs

NextParser ==
    \/ ParseSplit
    \/ ParseLine
    \/ ParseReturn

SpecParser == InitParser /\ [][NextParser]_vars

-----------------------------------------------------------------------------
(* retry_on_db_lock on its own: every script, both implementations         *)

InitRetry ==
    /\ posts = [p \in PostIds |-> NewPost(p)]
    /\ pm = [p \in PostIds |-> NewPostMetrics]
    /\ variants = InitialVariants
    /\ fires = [p \in PostIds |-> 0]
    /\ Idle
    /\ retry \in RetryCalls
    /\ uniqueTogether = FALSE

NextRetry == RetryCall

SpecRetry == InitRetry /\ [][NextRetry]_vars

\* The number of leading invocations of the script that raise the lock failure.
LeadingLocks(script) ==
    MaxOf({k \in 0..Len(script) : \A i \in 1..k : script[i] = "locked"})

RECURSIVE Pow2(_)
Pow2(n) == IF n = 0 THEN 1 ELSE 2 * Pow2(n - 1)

Returned == IsSet(retry.res)
Res == The(retry.res)

\* C5: with agents/views.py's retry_on_db_lock, an operation that raises the
\* lock failure on its first k invocations (0 <= k < max_retries) and then
\* succeeds is invoked exactly k+1 times, its result is returned, and the
\* wrapper sleeps exactly k times, the i-th sleep lasting initial_delay * 2^i
\* (i = 0..k-1).
C5_BackoffThenSuccess ==
    LET k == LeadingLocks(retry.script)
    IN  (/\ Returned
         /\ retry.impl = "agents"
         /\ k < retry.max_retries
         /\ retry.script[k + 1] = "ok")
        => /\ Res.outcome = "returned"
           /\ Res.kind = "value"
           /\ Res.calls = k + 1
           /\ Res.sleeps = [i \in 1..k |-> retry.initial_delay * Pow2(i - 1)]

\* Two lock failures, then success, with the defaults: three invocations and
\* sleeps of 0.1 s and 0.2 s.
C5_Witness ==
    /\ Returned
    /\ retry.impl = "agents"
    /\ retry.max_retries = DefaultMaxRetries
    /\ retry.initial_delay = DefaultInitialDelay
    /\ LeadingLocks(retry.script) = 2
    /\ retry.script[3] = "ok"
    /\ Res.calls = 3
    /\ Res.sleeps = <<1, 2>>

\* C6: in both implementations, an operation whose failure is not the lock
\* failure (an OperationalError with another message, or another exception)
\* is invoked exactly once, no sleep occurs, and that failure is raised.
C6_OtherFailureRaisedAtOnce ==
    (/\ Returned
     /\ retry.max_retries >= 1
     /\ retry.script[1] \in {"db_other", "other"})
    => /\ Res.outcome = "raised"
       /\ Res.kind = retry.script[1]
       /\ Res.from = 1
       /\ Res.calls = 1
       /\ Res.sleeps = <<>>

\* metrics/views.py's wrapper re-raises an OperationalError that is not a
\* lock failure after one invocation.
C6_Witness ==
    /\ Returned
    /\ retry.impl = "metrics"
    /\ retry.max_retries = DefaultMaxRetries
    /\ retry.script[1] = "db_other"
    /\ Res.outcome = "raised"
    /\ Res.kind = "db_other"
    /\ Res.calls = 1

\* C7: in both implementations, an operation that raises the lock failure on
\* every invocation is invoked exactly max_retries times, no value is
\* returned, and the lock failure of the last invocation is raised.
C7_ExhaustionRaisesLastLock ==
    (/\ Returned
     /\ retry.max_retries >= 1
     /\ \A i \in 1..retry.max_retries : retry.script[i] = "locked")
    => /\ Res.outcome = "raised"
       /\ Res.kind = "locked"
       /\ Res.from = retry.max_retries
       /\ Res.calls = retry.max_retries


-----------------------------------------------------------------------------
(* The evaluator on its own: check-triggers over a range of stores         *)

EvalPostIds == {1, 2}
Thresholds == {5}
MetricValues == {2, 3, 5, 8}

\* status and posted_time: a draft never posted, a post reset to draft by a
\* worker, a post created as published (AgentState.add_post_to_campaign takes
\* the status from its caller), a post published by createXPost.
StatusSamples ==
    {<<"draft", None>>, <<"draft", Some(0)>>,
     <<"published", None>>, <<"published", Some(0)>>}

\* The four trigger columns: cleared by a worker, or stored by parseTrigger.
NoTrigger == [condition |-> None, value |-> None, comparison |-> None, prompt |-> None]
TriggerSamples ==
    {NoTrigger} \cup
    [condition : {Some(c) : c \in ValidConditions},
     value : {Some(x) : x \in Thresholds},
     comparison : {Some(c) : c \in Comparisons},
     prompt : {Some("p1")}]

PostRow(sp, trig, metrics) ==
    [status |-> sp[1], posted_time |-> sp[2],
     trigger_condition |-> trig.condition, trigger_value |-> trig.value,
     trigger_comparison |-> trig.comparison, trigger_prompt |-> trig.prompt,
     metrics |-> metrics]

\* A PostMetrics row as getXPostMetrics writes it.
MetricsRow(a, b) ==
    [likes |-> DictCounter(a, b), retweets |-> DictCounter(b, a),
     impressions |-> DictCounter(a, a), comments |-> DictCounter(b, b),
     tweet_id |-> Variants]

MetricSamples ==
    {NewPostMetrics} \cup {MetricsRow(a, b) : a \in MetricValues, b \in MetricValues}

\* Post 1 ranges over every sample (its metrics FK may be NULL: on_delete is
\* SET_NULL); post 2 is a draft or a published post with likes < 5.
EvalRows == {PostRow(sp, trig, m) : sp \in StatusSamples, trig \in TriggerSamples,
                                    m \in {None, Some(1)}}
CompanionRows ==
    {NewPost(2),
     PostRow(<<"published", Some(0)>>,
             [condition |-> Some("likes"), value |-> Some(5),
              comparison |-> Some("<"), prompt |-> Some("p2")], Some(2))}

InitEval ==
    /\ \E r1 \in EvalRows, r2 \in CompanionRows :
          posts = [p \in EvalPostIds |-> IF p = 1 THEN r1 ELSE r2]
    /\ \E m \in MetricSamples :
          pm = [p \in EvalPostIds |-> IF p = 1 THEN m ELSE MetricsRow(3, 8)]
    /\ variants = InitialVariants
    /\ fires = [p \in EvalPostIds |-> 0]
    /\ Idle
    /\ retry = NoRetry
    /\ uniqueTogether = FALSE

NextEval ==
    \/ CheckTrigger
    \/ Tick

SpecEval == InitEval /\ [][NextEval]_vars

Responded == IsSet(resp)
Events == The(resp)

\* What the specification requires of a post for it to be evaluated.
Eligible(p) ==
    /\ posts[p].status = "published"
    /\ IsSet(posts[p].posted_time)
    /\ IsSet(posts[p].metrics)
    /\ IsSet(posts[p].trigger_condition)
    /\ IsSet(posts[p].trigger_value)
    /\ IsSet(posts[p].trigger_comparison)

\* The value of the configured metric for one variant of post p.
ConfiguredValue(p, v) ==
    LET counter == pm[The(posts[p].metrics)][The(posts[p].trigger_condition)]
    IN  IF counter.isdict /\ v \in counter.keys THEN counter.val[v] ELSE 0

Satisfies(p, v) ==
    LET x == ConfiguredValue(p, v)
        threshold == The(posts[p].trigger_value)
        op == The(posts[p].trigger_comparison)
    IN  \/ op = "<" /\ x < threshold
        \/ op = "=" /\ x = threshold
        \/ op = ">" /\ x > threshold

EventsOf(events, p) == {i \in 1..Len(events) : events[i].post_pk = p}
Labels(seq) == {seq[i] : i \in 1..Len(seq)}

\* C1: an evaluated post fires if and only if variant A's or variant B's value
\* of the configured metric satisfies the comparison against the threshold
\* (strictly less, exactly equal, strictly greater), and the event's
\* triggered_variants is exactly the set of labels whose value satisfies it.
C1_FiresIffVariantSatisfies ==
    Responded =>
        \A p \in DOMAIN posts :
            Eligible(p) =>
                /\ (EventsOf(Events, p) # {}) <=> (\E v \in Variants : Satisfies(p, v))
                /\ \A i \in EventsOf(Events, p) :
                      /\ Labels(Events[i].triggered_variants)
                            = {v \in Variants : Satisfies(p, v)}
                      /\ Len(Events[i].triggered_variants)
                            = Cardinality({v \in Variants : Satisfies(p, v)})

\* likes A=3, B=8 against '<' 5: the post fires with triggered_variants {A}.
C1_Witness ==
    /\ Responded
    /\ Eligible(1)
    /\ posts[1].trigger_condition = Some("likes")
    /\ posts[1].trigger_comparison = Some("<")
    /\ posts[1].trigger_value = Some(5)
    /\ ConfiguredValue(1, "A") = 3
    /\ ConfiguredValue(1, "B") = 8
    /\ \E i \in EventsOf(Events, 1) : Events[i].triggered_variants = <<"A">>

\* The events without the field that reports the time since posted_time.
WithoutElapsed(events) ==
    [i \in 1..Len(events) |-> [events[i] EXCEPT !.elapsed_time_seconds = 0]]

\* C10 as stated: two evaluations with no change to any post, trigger or
\* Metric Record between them return the same list of events (same posts,
\* same order, same field values).  No action of SpecEval writes the store.
C10_SameEventList ==
    (IsSet(prevResp) /\ Responded) => The(prevResp) = Events

\* C10, amended: two evaluations with no change to the store between them
\* return the same posts in the same order with the same field values, except
\* elapsed_time_seconds, which follows the clock.
C10_SameEventsButElapsed ==
    (IsSet(prevResp) /\ Responded) =>
        WithoutElapsed(The(prevResp)) = WithoutElapsed(Events)

\* Two evaluations of an unchanged store, the clock having advanced between
\* them: both posts fire both times, in the same order.
C10_Witness ==
    /\ IsSet(prevResp)
    /\ Responded
    /\ Len(Events) = 2
    /\ Events[1].post_pk = 1
    /\ Events[2].post_pk = 2
    /\ The(prevResp)[1].elapsed_time_seconds # Events[1].elapsed_time_seconds


-----------------------------------------------------------------------------
(* Properties of the pipeline                                              *)

TriggerAbsent(post) ==
    /\ post.trigger_condition = None
    /\ post.trigger_value = None
    /\ post.trigger_comparison = None
    /\ post.trigger_prompt = None

TriggerPresent(post) ==
    /\ IsSet(post.trigger_condition)
    /\ IsSet(post.trigger_value)
    /\ IsSet(post.trigger_comparison)
    /\ IsSet(post.trigger_prompt)

\* A check-triggers request is served in this step.
CheckServed == nchecks' = nchecks + 1

C3_AtMostOneEventPerConfiguration ==
    \A p \in DOMAIN fires : fires[p] <= 1

\* The rows of post p that were inserted after the table looked like `prior`.
NewRows(prior, vs, p) == {i \in (Len(prior) + 1)..Len(vs) : vs[i].post = p}

HasBothSlots(vs, p) == SlotRows(vs, p, "A") # {} /\ SlotRows(vs, p, "B") # {}

\* C4: when a Regeneration Worker completes successfully for a post that had
\* a slot-A and a slot-B variant when it was started, the four trigger fields
\* are absent, the status is draft, exactly two new variant records exist
\* (one for slot A, one for slot B), inserted after every prior variant, and
\* every prior record is unchanged.
C4_AfterSuccessfulRegeneration ==
    [][\A w \in 1..Len(workers) :
          LET p == workers[w].data.post_pk
              prior == workers[w].prior
              new == NewRows(prior, variants', p)
          IN  (/\ workers[w].pc = "finalize"
               /\ workers'[w].pc = "done"
               /\ HasBothSlots(prior, p))
              => /\ TriggerAbsent(posts'[p])
                 /\ posts'[p].status = "draft"
                 /\ Cardinality(new) = 2
                 /\ {variants'[i].variant_id : i \in new} = Variants
                 /\ SubSeq(variants', 1, Len(prior)) = prior]_vars

\* This worker takes a step.
Steps(w) == workers'[w] # workers[w]

\* C8: a worker whose analysis call or content-generation call fails stops
\* without writing anything: no step of a worker up to and including the
\* failure changes a post, a PostMetrics row or the variant records, the
\* failed worker has created no variant, and it takes no further step.
C8_FailedLLMCallWritesNothing ==
    [][\A w \in 1..Len(workers) :
          /\ (workers[w].pc \in {"analyze", "generate"} /\ Steps(w))
             => /\ UNCHANGED storeVars
                /\ workers'[w].va = None
                /\ workers'[w].vb = None
          /\ workers[w].pc = "failed" => ~Steps(w)]_vars

\* The content-generation call of a worker failed; the post is still
\* published with its trigger, and only the variants of the campaign exist.
C8_Witness ==
    \E w \in 1..Len(workers) :
        /\ workers[w].pc = "failed"
        /\ workers[w].at = "generate"
        /\ posts[workers[w].data.post_pk].status = "published"
        /\ TriggerPresent(posts[workers[w].data.post_pk])
        /\ variants = InitialVariants

\* C9: a media failure for variant A, for variant B or for both never aborts
\* the worker: the media step always hands over to the next step with the
\* text variants created so far still stored, a variant whose media failed
\* carries no asset, and the finalize step that follows sets the post to
\* draft and clears its trigger.
C9_MediaFailureIsNotFatal ==
    [][\A w \in 1..Len(workers) :
          LET p == workers[w].data.post_pk
          IN  /\ (workers[w].pc = "mediaA" /\ Steps(w))
                 => /\ workers'[w].pc = "createB"
                    /\ IsSet(workers'[w].va)
                    /\ variants'[The(workers'[w].va)].variant_id = "A"
                    /\ workers'[w].imgA = "failed"
                          => ~variants'[The(workers'[w].va)].asset
              /\ (workers[w].pc = "mediaB" /\ Steps(w))
                 => /\ workers'[w].pc = "finalize"
                    /\ IsSet(workers'[w].va)
                    /\ IsSet(workers'[w].vb)
                    /\ variants'[The(workers'[w].vb)].variant_id = "B"
                    /\ workers'[w].imgB = "failed"
                          => ~variants'[The(workers'[w].vb)].asset
              /\ (workers[w].pc = "finalize" /\ workers'[w].pc = "done")
                 => /\ posts'[p].status = "draft"
                    /\ TriggerAbsent(posts'[p])
                    /\ variants'[The(workers'[w].va)].regenerated
                    /\ variants'[The(workers'[w].vb)].regenerated]_vars

\* A worker whose two media steps failed is done: both of its variants are
\* stored without an asset and the post is a draft without a trigger.
C9_Witness ==
    \E w \in 1..Len(workers) :
        /\ workers[w].pc = "done"
        /\ workers[w].imgA = "failed"
        /\ workers[w].imgB = "failed"
        /\ variants[The(workers[w].va)].variant_id = "A"
        /\ variants[The(workers[w].vb)].variant_id = "B"
        /\ ~variants[The(workers[w].va)].asset
        /\ ~variants[The(workers[w].vb)].asset
        /\ posts[workers[w].data.post_pk].status = "draft"
        /\ TriggerAbsent(posts[workers[w].data.post_pk])


\* C11: the evaluation performed by check-triggers changes no stored data:
\* the step that serves the request leaves every post, every PostMetrics row
\* and every variant record as they were.
C11_CheckTriggerWritesNothing ==
    [][CheckServed => UNCHANGED storeVars]_vars

\* The first check-triggers request fired for post 1 and the worker has not
\* taken a step; the post is still published with its trigger, and only the
\* variants of the campaign exist.
C11_Witness ==
    /\ nchecks = 1
    /\ Responded
    /\ Len(Events) = 1
    /\ Len(workers) = 1
    /\ workers[1].pc = "analyze"
    /\ posts[1].status = "published"
    /\ TriggerPresent(posts[1])
    /\ variants = InitialVariants

\* C12: in every reachable state the four trigger fields of each post are
\* all present or all absent.
C12_TriggerAllOrNothing ==
    \A p \in DOMAIN posts : TriggerPresent(posts[p]) \/ TriggerAbsent(posts[p])

\* A worker has finalized post 1 and parseTrigger has stored a configuration
\* on it since.
C12_Witness ==
    /\ \E w \in 1..Len(workers) : workers[w].pc = "done"
    /\ TriggerPresent(posts[1])
    /\ posts[1].status = "draft"


BothKeys(counter) == counter.isdict /\ counter.keys = Variants

\* C13: in every reachable state, from the creation of a post and its
\* PostMetrics row on, each of the four counters and the tweet_id map of the
\* row holds a key for both 'A' and 'B'.
C13_BothKeysAlways ==
    \A p \in DOMAIN posts :
        IsSet(posts[p].metrics) =>
            LET m == pm[The(posts[p].metrics)]
            IN  /\ BothKeys(m.likes)
                /\ BothKeys(m.retweets)
                /\ BothKeys(m.impressions)
                /\ BothKeys(m.comments)
                /\ m.tweet_id = Variants

Created(w, slot) == IF slot = "A" THEN workers[w].va ELSE workers[w].vb
CreatedNext(w, slot) == IF slot = "A" THEN workers'[w].va ELSE workers'[w].vb
Creates(w, slot) == Created(w, slot) = None /\ IsSet(CreatedNext(w, slot))

StepOrder ==
    {<<"analyze", "generate">>, <<"generate", "createA">>, <<"createA", "mediaA">>,
     <<"mediaA", "createB">>, <<"createB", "mediaB">>, <<"mediaB", "finalize">>,
     <<"finalize", "done">>}

Running(w) == workers[w].pc \notin {"done", "failed"}

\* C16: at every moment the workers that are running target pairwise
\* distinct posts.
C16_RunningWorkersTargetDistinctPosts ==
    \A w1, w2 \in 1..Len(workers) :
        (w1 # w2 /\ Running(w1) /\ Running(w2))
            => workers[w1].data.post_pk # workers[w2].data.post_pk

WithPostedAt(P, p, u) == [P EXCEPT ![p].posted_time = Some(u)]

\* Which posts fired, in order, and with which triggered_variants.
FiredView(events) ==
    [i \in 1..Len(events) |-> <<events[i].post_pk, events[i].triggered_variants>>]

Dispatched == SubSeq(workers', Len(workers) + 1, Len(workers'))
OldWorkersKept == Len(workers') >= Len(workers) /\ SubSeq(workers', 1, Len(workers)) = workers
RespondsWithFiredEvents == resp' = Some(Evaluate(posts, pm, now))

\* C15 as stated: a check-triggers call dispatches exactly one worker for
\* each event of its result, in order, and none for any other post; it
\* responds with exactly the fired events without waiting for a worker, and
\* no later step of a worker changes that response.
C15_OneWorkerPerEvent ==
    [][/\ CheckServed =>
             /\ OldWorkersKept
             /\ RespondsWithFiredEvents
             /\ Len(Dispatched) = Len(The(resp'))
             /\ \A i \in 1..Len(Dispatched) : Dispatched[i].data = The(resp')[i]
       /\ ~CheckServed => resp' = resp]_vars

\* C15, amended: a check-triggers call dispatches at most one worker for
\* each event of its result (exactly one unless starting its thread fails,
\* in which case the event is still reported and the other events are still
\* dispatched) and none for any other post; it responds with exactly the
\* fired events, whatever the state of the workers already running, and no
\* later step of a worker changes that response.
C15_AtMostOneWorkerPerEvent ==
    [][/\ CheckServed =>
             /\ OldWorkersKept
             /\ RespondsWithFiredEvents
             /\ \E started \in SUBSET (1..Len(The(resp'))) :
                   LET launched == Launched(The(resp'), started, 1)
                   IN  /\ Len(Dispatched) = Len(launched)
                       /\ \A i \in 1..Len(Dispatched) :
                             /\ Dispatched[i].data = launched[i]
                             /\ Dispatched[i].pc = "analyze"
       /\ ~CheckServed => resp' = resp]_vars

\* Two check-triggers calls each answered with one event; only one thread
\* was started in all, and that worker has since failed without the answer
\* changing.
C15_Witness ==
    /\ nchecks = 2
    /\ Responded
    /\ Len(Events) = 1
    /\ IsSet(prevResp)
    /\ Len(The(prevResp)) = 1
    /\ Len(workers) = 1
    /\ workers[1].pc = "failed"


\* A step in which parseTrigger answers a request.
ParseReplied == parseResp' # parseResp

MissingField(req) == req.pk = 0 \/ req.condition = "" \/ req.prompt = ""

\* C18: every parseTrigger response is either 200, and then the request was
\* complete, named a valid condition and an existing post, and the step
\* stored all four trigger fields of that post (the condition as requested)
\* and touched no other post; or it is an error (400, 404, 500), and then
\* the step stored nothing.  A missing field and an invalid condition are
\* answered 400, an unknown post 404, a parser failure 500.
C18_StoresAllFourOrNothing ==
    [][ParseReplied =>
          LET r == The(parseResp')
              q == r.request
          IN  /\ r.status \in {200, 400, 404, 500}
              /\ r.status = 200 =>
                    /\ ~MissingField(q)
                    /\ q.condition \in ValidConditions
                    /\ q.pk \in DOMAIN posts
                    /\ TriggerPresent(posts'[q.pk])
                    /\ posts'[q.pk].trigger_condition = Some(q.condition)
                    /\ \A p \in DOMAIN posts \ {q.pk} : posts'[p] = posts[p]
                    /\ UNCHANGED <<pm, variants>>
              /\ r.status # 200 => UNCHANGED storeVars
              /\ MissingField(q) => r.status = 400
              /\ q.condition \notin ValidConditions => r.status = 400
              /\ (~MissingField(q) /\ q.condition \in ValidConditions
                    /\ q.pk \notin DOMAIN posts) => r.status = 404
              /\ r.status = 500 => parseReq # None /\ parseReq' = None]_vars

\* A request with a condition outside the four names was answered 400 while
\* the post kept the configuration an earlier request had stored.
C18_Witness ==
    /\ IsSet(parseResp)
    /\ The(parseResp).status = 400
    /\ The(parseResp).request.condition = "shares"
    /\ TriggerPresent(posts[1])


\* A step in which createXPost or approveAllNodes finishes.
PublishReplied == pubReq # None /\ pubReq' = None

StaleLoad(w) ==
    /\ Steps(w)
    /\ workers[w].pc = "analyze"
    /\ workers[w].data.post_pk \notin DOMAIN posts

\* C19: when the post of its event no longer exists at the load step, the
\* worker ends there: Post.DoesNotExist is raised by the first invocation of
\* get_post (unless the database is locked at that moment), it is not
\* retried, no record is created or changed, the check-triggers response
\* stays as it was and no other worker is touched.
C19_StaleEventEndsWorkerOnly ==
    [][\A w \in 1..Len(workers) :
          StaleLoad(w) =>
             /\ workers'[w].pc = "failed"
             /\ workers'[w].at = "analyze"
             /\ workers'[w].calls = 1
             /\ workers'[w].why \in {"other", "AttributeError"}
             /\ workers'[w].va = None /\ workers'[w].vb = None
             /\ UNCHANGED <<storeVars, resp, prevResp, nchecks>>
             /\ Len(workers') = Len(workers)
             /\ \A u \in 1..Len(workers) : u # w => workers'[u] = workers[u]]_vars

\* Post 1 was rejected after check-triggers fired on both posts: its worker
\* ended at the load with Post.DoesNotExist after one invocation, and the
\* worker of post 2 went on to finish.
C19_Witness ==
    /\ 1 \notin DOMAIN posts
    /\ Len(workers) = 2
    /\ workers[1].data.post_pk = 1
    /\ workers[1].pc = "failed"
    /\ workers[1].at = "analyze"
    /\ workers[1].why = "other"
    /\ workers[1].calls = 1
    /\ workers[2].pc = "done"
    /\ posts[2].status = "draft"
    /\ Len(Events) = 2


\* C30: in both implementations, with max_retries >= 1 the operation is
\* invoked at least once and at most max_retries times; every sleep is
\* followed by another invocation (fewer sleeps than invocations, so at most
\* max_retries - 1 of them); the first sleep lasts initial_delay and each
\* further one exactly twice the one before.
C30_SleepsOnlyBetweenInvocations ==
    (Returned /\ retry.max_retries >= 1)
    => /\ Res.calls >= 1
       /\ Res.calls <= retry.max_retries
       /\ Len(Res.sleeps) <= Res.calls - 1
       /\ Len(Res.sleeps) <= retry.max_retries - 1
       /\ \A i \in 1..Len(Res.sleeps) :
             Res.sleeps[i] = IF i = 1 THEN retry.initial_delay
                             ELSE 2 * Res.sleeps[i - 1]

\* The defaults and an operation that is locked five times: five
\* invocations and the four sleeps 0.1, 0.2, 0.4, 0.8 s.
C30_Witness ==
    /\ Returned
    /\ retry.impl = "agents"
    /\ retry.max_retries = DefaultMaxRetries
    /\ retry.initial_delay = DefaultInitialDelay
    /\ \A i \in 1..DefaultMaxRetries : retry.script[i] = "locked"
    /\ Res.calls = 5
    /\ Res.sleeps = <<1, 2, 4, 8>>


\* The four trigger columns of a row.
TriggerFields(post) ==
    <<post.trigger_condition, post.trigger_value, post.trigger_comparison,
      post.trigger_prompt>>

\* C29: the step in which parseTrigger saves and answers leaves the status,
\* the posted_time and the Metric Record reference of its post as they were
\* stored just before the save, whatever was written since the request read
\* the post.
C29_SetTriggerChangesTriggerFieldsOnly ==
    [][(parseReq # None /\ parseReq' = None) =>
          LET pk == The(parseReq).pk
          IN  /\ posts'[pk].status = posts[pk].status
              /\ posts'[pk].posted_time = posts[pk].posted_time
              /\ posts'[pk].metrics = posts[pk].metrics]_vars

\* C27: the finalize step of a worker does not clear a configuration on
\* which check-triggers has not fired yet (fires[p] = 0: stored by
\* parseTrigger after the event of every worker of the post was evaluated).
C27_FinalizeKeepsLaterConfiguration ==
    [][\A w \in 1..Len(workers) :
          LET p == workers[w].data.post_pk
          IN  (/\ workers[w].pc = "finalize"
               /\ workers'[w].pc = "done"
               /\ fires[p] = 0
               /\ TriggerPresent(posts[p]))
              => TriggerFields(posts'[p]) = TriggerFields(posts[p])]_vars


\* The records of slot `slot` of post p written by a Regeneration Worker.
Regenerated(vs, p, slot) == {i \in SlotRows(vs, p, slot) : vs[i].regenerated}

\* C28: whenever no worker is running, every post has as many regenerated
\* slot-A records as regenerated slot-B records.
C28_RegeneratedInPairs ==
    (\A w \in 1..Len(workers) : ~Running(w))
        => \A p \in DOMAIN posts :
              Cardinality(Regenerated(variants, p, "A"))
                 = Cardinality(Regenerated(variants, p, "B"))

\* The steps of a worker that write through the retry wrapper and whose
\* failure ends the worker.
WriteSteps == {"createA", "createB", "finalize"}

\* C23: a storage write of a worker that meets the lock failure fewer than 5
\* times in a row (here: once) and would then succeed is retried by the
\* wrapper, so no worker ends at a write step with the exception raised on
\* the way to the retry.
C23_LockedWriteIsRetried ==
    \A w \in 1..Len(workers) :
        ~(/\ workers[w].pc = "failed"
          /\ workers[w].at \in WriteSteps
          /\ workers[w].why = "AttributeError")


\* Worker w ended at update_post_status, after both of its variants were
\* created.
FailedAtFinalize(w) == workers[w].pc = "failed" /\ workers[w].at = "finalize"

\* C22: a worker that stops at finalize leaves everything as it was at that
\* moment (its two new variants stay, the post is not touched: no
\* compensation) and takes no further step; and a check-triggers request
\* served afterwards fires again for its post whenever the post is still
\* published with its trigger and a variant still satisfies the trigger.
C22_StopBeforeFinalizeLeavesTrigger ==
    [][\A w \in 1..Len(workers) :
          LET p == workers[w].data.post_pk
          IN  /\ (workers[w].pc = "finalize" /\ workers'[w].pc = "failed")
                    => /\ UNCHANGED storeVars
                       /\ IsSet(workers'[w].va) /\ IsSet(workers'[w].vb)
                       /\ variants'[The(workers'[w].va)] = NewVariant(p, "A", TRUE, w)
                             \/ variants'[The(workers'[w].va)]
                                   = [NewVariant(p, "A", TRUE, w) EXCEPT !.asset = TRUE]
                       /\ variants'[The(workers'[w].vb)] = NewVariant(p, "B", TRUE, w)
                             \/ variants'[The(workers'[w].vb)]
                                   = [NewVariant(p, "B", TRUE, w) EXCEPT !.asset = TRUE]
              /\ FailedAtFinalize(w) => ~Steps(w)
              /\ (/\ CheckServed
                  /\ FailedAtFinalize(w)
                  /\ Eligible(p)
                  /\ \E v \in Variants : Satisfies(p, v))
                    => p \in EventPosts(The(resp'))]_vars

\* The first worker stopped at finalize with both new variants stored; the
\* post kept status published and its trigger; the second check-triggers
\* request fired on it again and started a second worker, which found the
\* regenerated variants already there.
C22_Witness ==
    /\ Len(workers) = 2
    /\ FailedAtFinalize(1)
    /\ workers[2].pc = "analyze"
    /\ Regenerated(workers[2].prior, 1, "A") # {}
    /\ Regenerated(workers[2].prior, 1, "B") # {}
    /\ posts[1].status = "published"
    /\ TriggerPresent(posts[1])
    /\ fires[1] = 2
    /\ Len(Events) = 1
    /\ Events[1].post_pk = 1


IsLatest(vs, p, slot, o) ==
    IF SlotRows(vs, p, slot) = {}
    THEN o = None
    ELSE /\ IsSet(o)
         /\ The(o) \in SlotRows(vs, p, slot)
         /\ \A i \in SlotRows(vs, p, slot) : i <= The(o)

\* A step in which createXPost or approveAllNodes queries the variants.
PublishQueried == pubReq = None /\ pubReq' # None

\* The slots for which a publish step stores a tweet id not stored before.
NewlyPosted(pk) ==
    IF IsSet(posts[pk].metrics)
    THEN pm'[The(posts[pk].metrics)].tweet_id \ pm[The(posts[pk].metrics)].tweet_id
    ELSE {}

\* C24 as stated: the record a publish step posts for a slot is, at the
\* moment it is posted, the record of latest creation time of that slot (no
\* newer record of the slot exists), and the worker's analysis reads the
\* latest record of each slot.
C24_NeverPostsOlderRecord ==
    [][/\ PublishReplied =>
             \A v \in NewlyPosted(The(pubReq).pk) :
                IsLatest(variants, The(pubReq).pk, v, The(pubReq).latest[v])
       /\ \A w \in 1..Len(workers) :
             (workers[w].pc = "analyze" /\ workers'[w].pc = "generate")
                => \A v \in Variants :
                      IsLatest(variants, workers[w].data.post_pk, v, workers'[w].read[v])]_vars

\* C24, amended: createXPost, approveAllNodes and the worker's analysis each
\* select, for slot A and slot B, the record that has the latest creation
\* time when they query the variants, and a publish posts only records it
\* selected; a record created by a worker after that query and before the
\* post reaches the platform is not picked up.
C24_SelectsLatestAtQuery ==
    [][/\ PublishQueried =>
             \A v \in Variants :
                IsLatest(variants, The(pubReq').pk, v, The(pubReq').latest[v])
       /\ PublishReplied =>
             \A v \in NewlyPosted(The(pubReq).pk) : IsSet(The(pubReq).latest[v])
       /\ \A w \in 1..Len(workers) :
             (workers[w].pc = "analyze" /\ workers'[w].pc = "generate")
                => \A v \in Variants :
                      IsLatest(variants, workers[w].data.post_pk, v, workers'[w].read[v])]_vars

\* A publish request has queried the variants of a post whose slot A holds
\* the record of the campaign and a regenerated one: it selected the
\* regenerated one.
C24_Witness ==
    /\ IsSet(pubReq)
    /\ Cardinality(SlotRows(variants, 1, "A")) = 2
    /\ IsSet(The(pubReq).latest["A"])
    /\ variants[The(The(pubReq).latest["A"])].regenerated
    /\ The(The(pubReq).latest["A"]) = 3


-----------------------------------------------------------------------------
\* The phase is stored as 'scheduled' only after 'content_creation' was.
ScheduledAfterCreation ==
    \A i \in 1..Len(gen.writes) :
        gen.writes[i] = "scheduled" =>
            \E j \in 1..(i - 1) : gen.writes[j] = "content_creation"

\* The loop has gone through every post of the campaign.
AllPostsProcessed == gen.next = CampaignSize + 1

\* C21: the content-generation task sets the campaign phase to
\* 'content_creation' before it sets it to 'scheduled'; a post that fails
\* does not stop the remaining posts (the task ends 'scheduled' with every
\* post gone through); and a task that ended with a task-level failure has
\* left the phase at 'planning'.
C21_PhasesOfContentGeneration ==
    /\ ScheduledAfterCreation
    /\ gen.pc = "done" => gen.phase = "scheduled" /\ AllPostsProcessed
    /\ gen.pc = "failed" => gen.phase = "planning"

-----------------------------------------------------------------------------
\* The line of the diagram the loop is at.
CurrentLine == mermaid.lines[mermaid.at]

\* The line defines a node: an id, an opening bracket, a closing bracket.
NodeDefinition(line) ==
    \E i \in 1..Len(line), j \in 1..Len(line) :
        line[i] \in Ids /\ i + 1 < j /\ line[i + 1] = "[" /\ line[j] = "]"

\* The id of the node the line defines.
DefinedId(line) ==
    line[Leftmost({i \in 1..(Len(line) - 1) : line[i] \in Ids /\ line[i + 1] = "["})]

HasTitle(line) == \E i \in 1..Len(line) : line[i] \in TitleTags
HasDescription(line) == \E i \in 1..Len(line) : line[i] = "<description>"

\* The line is of the form X --> Y.
ArrowLine(line) ==
    \E i \in 1..(Len(line) - 2) :
        line[i] \in Ids /\ line[i + 1] = "-->" /\ line[i + 2] \in Ids

\* The name of the most recent subgraph header among the first n lines.
RecentPhase(lines, n) ==
    LET H == {j \in 1..n : \E i \in 1..Len(lines[j]) : lines[j][i] \in Headers}
        last == CHOOSE j \in H : \A k \in H : k <= j
    IN  IF H = {} THEN "Unknown"
        ELSE PhaseName(lines[last][SubgraphMatch(lines[last])])

\* C26: reading the diagram line by line, a line holding a node definition
\* with both a title tag and a description tag appends exactly one node
\* carrying the name of the most recent subgraph header before it ('Unknown'
\* when there is none, whatever 'end' lines came in between); a node
\* definition lacking either tag appends no node; an 'X --> Y' line appends
\* one connection; and a call whose argument is not a text returns the empty
\* result.
C26_EveryLineYieldsItsNodeOrConnection ==
    /\ [](mermaid.pc = "returned" /\ mermaid.kind # "text"
             => mermaid.nodes = <<>> /\ mermaid.connections = <<>>)
    /\ [][ParseLine =>
             /\ NodeDefinition(CurrentLine) /\ HasTitle(CurrentLine)
                    /\ HasDescription(CurrentLine)
                  => mermaid'.nodes =
                       Append(mermaid.nodes,
                              [id |-> DefinedId(CurrentLine),
                               phase |-> RecentPhase(mermaid.lines, mermaid.at - 1)])
             /\ ~(HasTitle(CurrentLine) /\ HasDescription(CurrentLine))
                  => mermaid'.nodes = mermaid.nodes
             /\ ArrowLine(CurrentLine)
                  => Len(mermaid'.connections) = Len(mermaid.connections) + 1]_vars

=============================================================================
